---- MODULE Spec2Model ----
(***************************************************************************)
(* BillSplit: the allocation kernel (logic.calculate_split_bill), the      *)
(* expression evaluator (logic.safe_decimal_eval) and the calculate        *)
(* handler of the terminal UI (ui.BillSplitterApp.calculate_split).        *)
(*                                                                         *)
(* Amounts are Python decimal.Decimal values under the default context     *)
(* (28 significant digits, ROUND_HALF_EVEN).  A Decimal is modelled as     *)
(* [sign, coef, exp] with value (-1)^sign * coef * 10^exp, where coef is   *)
(* the coefficient's decimal digits, most significant first, exactly as    *)
(* Decimal.as_tuple() reports them.  Coefficients have up to 28 digits, so *)
(* the arithmetic is done on digit sequences.                              *)
(***************************************************************************)
EXTENDS Integers, Sequences, FiniteSets, TLC

----------------------------------------------------------------------------
(* Natural numbers as digit sequences, most significant digit first.       *)

MinOf(S) == CHOOSE i \in S : \A j \in S : i <= j
MaxOf(S) == CHOOSE i \in S : \A j \in S : i >= j

Min(a, b) == IF a < b THEN a ELSE b
Max(a, b) == IF a > b THEN a ELSE b

NatZero == <<0>>

IsZeroNat(d) == \A i \in 1..Len(d) : d[i] = 0

\* drop leading zeros, keeping one digit
Strip(d) ==
    IF IsZeroNat(d) THEN NatZero
    ELSE SubSeq(d, MinOf({i \in 1..Len(d) : d[i] # 0}), Len(d))

Zeros(n) == [i \in 1..n |-> 0]

\* d * 10^n
ShiftLeft(d, n) == IF IsZeroNat(d) THEN NatZero ELSE Strip(d) \o Zeros(n)

\* left-pad with zeros to length n
PadTo(d, n) == Zeros(n - Len(d)) \o d

RECURSIVE NatFromInt(_)
NatFromInt(n) ==
    IF n < 10 THEN <<n>> ELSE NatFromInt(n \div 10) \o <<n % 10>>

RECURSIVE NatToInt(_)
\* only used on values known to be small (cents of a displayed amount)
NatToInt(d) ==
    IF Len(d) = 0 THEN 0
    ELSE NatToInt(SubSeq(d, 1, Len(d) - 1)) * 10 + d[Len(d)]

\* the first position where two digit sequences of equal length differ
FirstDiff(a, b) == MinOf({i \in 1..Len(a) : a[i] # b[i]})

\* comparison of equal-length digit sequences at the first differing digit
CmpDigits(a, b) ==
    IF a = b THEN 0
    ELSE IF a[FirstDiff(a, b)] < b[FirstDiff(a, b)] THEN -1 ELSE 1

\* -1, 0, 1
NatCmp(a, b) ==
    CmpDigits(PadTo(a, Max(Len(a), Len(b))), PadTo(b, Max(Len(a), Len(b))))

\* the carry into position i of A + B is decided by the nearest position to
\* its right that generates one, with only nines in between
Carry(A, B, i) ==
    \E j \in (i + 1)..Len(A) :
        /\ A[j] + B[j] >= 10
        /\ \A k \in (i + 1)..(j - 1) : A[k] + B[k] = 9

\* A + B for equal lengths and a leading zero to take the last carry
AddDigits(A, B) ==
    Strip([i \in 1..Len(A) |-> (A[i] + B[i] + (IF Carry(A, B, i) THEN 1 ELSE 0)) % 10])

\* a + b
NatAdd(a, b) ==
    AddDigits(PadTo(a, Max(Len(a), Len(b)) + 1), PadTo(b, Max(Len(a), Len(b)) + 1))

\* the borrow from position i of A - B, decided like the carries of NatAdd
Borrow(A, B, i) ==
    \E j \in (i + 1)..Len(A) :
        /\ A[j] < B[j]
        /\ \A k \in (i + 1)..(j - 1) : A[k] = B[k]

\* A - B for equal lengths
SubDigits(A, B) ==
    Strip([i \in 1..Len(A) |-> (A[i] - B[i] - (IF Borrow(A, B, i) THEN 1 ELSE 0) + 10) % 10])

\* a - b, for a >= b
NatSub(a, b) ==
    SubDigits(PadTo(a, Max(Len(a), Len(b))), PadTo(b, Max(Len(a), Len(b))))

\* a * k for one digit k: the units of the digit products, plus their tens
\* one position to the left
MulDigit(a, k) ==
    NatAdd([i \in 1..Len(a) |-> (a[i] * k) % 10],
           [i \in 1..(Len(a) + 1) |-> IF i > Len(a) THEN 0 ELSE (a[i] * k) \div 10])

RECURSIVE NatMulRange(_, _, _, _)
\* a * (the digits lo..hi of b), halving the range
NatMulRange(a, b, lo, hi) ==
    IF lo = hi THEN MulDigit(a, b[lo])
    ELSE NatAdd(ShiftLeft(NatMulRange(a, b, lo, (lo + hi) \div 2), hi - (lo + hi) \div 2),
                NatMulRange(a, b, (lo + hi) \div 2 + 1, hi))

\* x * y digit by digit over the shorter factor
MulOrdered(x, y) ==
    IF Len(x) >= Len(y) THEN NatMulRange(x, y, 1, Len(y))
    ELSE NatMulRange(y, x, 1, Len(x))

\* a * b
NatMul(a, b) == MulOrdered(Strip(a), Strip(b))

\* the largest digit k with b * k <= r1
QuotDigit(b, r1) == MaxOf({j \in 0..9 : NatCmp(MulDigit(b, j), r1) <= 0})

\* one step of long division: the quotient digit k and what is left of r1
DivDigit(b, r1, k) == [q |-> <<k>>, r |-> NatSub(r1, MulDigit(b, k))]

BringDown(b, r1) == DivDigit(b, r1, QuotDigit(b, r1))

RECURSIVE LongDiv(_, _, _, _, _)
\* schoolbook long division by b (b nonzero), over the digits lo..hi of a with
\* the remainder r brought down from the digits before lo; q has one digit
\* per digit of the range.  The range is halved to keep the evaluation shallow.
LongDiv(a, b, r, lo, hi) ==
    IF lo = hi
    THEN BringDown(b, Strip(r \o <<a[lo]>>))
    ELSE LET mid == (lo + hi) \div 2
             left == LongDiv(a, b, r, lo, mid)
             right == LongDiv(a, b, left.r, mid + 1, hi)
         IN  [q |-> left.q \o right.q, r |-> right.r]

RECURSIVE ShortDiv(_, _, _, _, _)
\* the same division for a divisor n small enough for machine arithmetic:
\* the remainder r stays below n
ShortDiv(a, n, r, lo, hi) ==
    IF lo = hi
    THEN [q |-> <<(r * 10 + a[lo]) \div n>>, r |-> (r * 10 + a[lo]) % n]
    ELSE LET mid == (lo + hi) \div 2
             left == ShortDiv(a, n, r, lo, mid)
             right == ShortDiv(a, n, left.r, mid + 1, hi)
         IN  [q |-> left.q \o right.q, r |-> right.r]

\* divisors of at most this many digits are divided by ShortDiv
ShortDigits == 8

\* quotient and remainder as digit sequences
ShortQuotRem(d) == [q |-> Strip(d.q), r |-> NatFromInt(d.r)]
LongQuotRem(d) == [q |-> Strip(d.q), r |-> d.r]

\* divmod(a, b) for b > 0 without leading zeros
DivModBy(a, b) ==
    IF Len(b) <= ShortDigits
    THEN ShortQuotRem(ShortDiv(a, NatToInt(b), 0, 1, Len(a)))
    ELSE LongQuotRem(LongDiv(a, b, NatZero, 1, Len(a)))

\* divmod(a, b) for b > 0
NatDivMod(a, b) == DivModBy(a, Strip(b))

----------------------------------------------------------------------------
(* decimal.Decimal under the default context.                              *)

\* decimal.getcontext().prec of the default context
Prec == 28

Xor(s, t) == IF s = t THEN 0 ELSE 1

MkDec(s, c, e) == [sign |-> s, coef |-> Strip(c), exp |-> e]

\* Decimal(n) for a Python int n
DecFromInt(n) == IF n < 0 THEN MkDec(1, NatFromInt(-n), 0) ELSE MkDec(0, NatFromInt(n), 0)

DecZero == DecFromInt(0)

IsZeroDec(a) == IsZeroNat(a.coef)

\* ROUND_HALF_EVEN of a coefficient to its first keep digits: TRUE when the
\* kept part is to be incremented
RoundsUp(c, keep) ==
    LET first == c[keep + 1]
        exactHalf == first = 5 /\ \A i \in (keep + 2)..Len(c) : c[i] = 0
    IN  IF exactHalf THEN keep > 0 /\ c[keep] % 2 = 1 ELSE first >= 5

\* the first keep digits of c, rounded half-even
RoundedTo(c, keep) ==
    IF RoundsUp(c, keep) THEN NatAdd(SubSeq(c, 1, keep), <<1>>) ELSE SubSeq(c, 1, keep)

\* a with the rounded coefficient c1, which a carry may have made one digit
\* too long
FixTo(a, c1) ==
    IF Len(c1) > Prec
    THEN MkDec(a.sign, SubSeq(c1, 1, Prec), a.exp + Len(a.coef) - Prec + 1)
    ELSE MkDec(a.sign, c1, a.exp + Len(a.coef) - Prec)

\* Decimal._fix: round to at most Prec significant digits
Fix(a) == IF Len(a.coef) <= Prec THEN a ELSE FixTo(a, RoundedTo(a.coef, Prec))

\* the sum of two signed coefficients at the same exponent e, c being the
\* comparison of the coefficients
AddSigned(sa, ca, sb, cb, e, c) ==
    IF sa = sb THEN MkDec(sa, NatAdd(ca, cb), e)
    ELSE IF c = 0 THEN MkDec(0, NatZero, e)
    ELSE IF c > 0 THEN MkDec(sa, NatSub(ca, cb), e)
    ELSE MkDec(sb, NatSub(cb, ca), e)

AddAligned(sa, ca, sb, cb, e) == AddSigned(sa, ca, sb, cb, e, NatCmp(ca, cb))

\* the exact sum, at the smaller of the two exponents, before any rounding
ExactAdd(a, b) ==
    AddAligned(a.sign, ShiftLeft(a.coef, a.exp - Min(a.exp, b.exp)),
               b.sign, ShiftLeft(b.coef, b.exp - Min(a.exp, b.exp)),
               Min(a.exp, b.exp))

\* x at the exponent e2 <= x.exp
Rescaled(x, e2) == MkDec(x.sign, ShiftLeft(x.coef, x.exp - e2), e2)

\* Decimal.__add__
DecAdd(a, b) ==
    Fix(IF IsZeroDec(a) /\ IsZeroDec(b)
        THEN MkDec(Min(a.sign, b.sign), NatZero, Min(a.exp, b.exp))
        ELSE IF IsZeroDec(a)
        THEN Rescaled(b, Max(Min(a.exp, b.exp), b.exp - Prec - 1))
        ELSE IF IsZeroDec(b)
        THEN Rescaled(a, Max(Min(a.exp, b.exp), a.exp - Prec - 1))
        ELSE ExactAdd(a, b))

\* Decimal.__mul__
DecMul(a, b) ==
    Fix(MkDec(Xor(a.sign, b.sign), NatMul(a.coef, b.coef), a.exp + b.exp))

\* the signal Decimal.__truediv__ raises, "none" when it returns a value
DivRaises(a, b) ==
    IF ~IsZeroDec(b) THEN "none"
    ELSE IF IsZeroDec(a) THEN "InvalidOperation" ELSE "DivisionByZero"

\* after an exact division: strip trailing zeros of the (nonzero) quotient c
\* while the exponent e is below the ideal exponent
DropTrailingZeros(c, e, ideal) ==
    LET tz == Len(c) - MaxOf({i \in 1..Len(c) : c[i] # 0})
        k == Max(0, Min(tz, ideal - e))
    IN  [coef |-> SubSeq(c, 1, Len(c) - k), exp |-> e + k]

\* an inexact quotient: a sticky digit keeps the rounding correct
Sticky(q) == IF q[Len(q)] % 5 = 0 THEN NatAdd(q, <<1>>) ELSE q

Trimmed(s, t) == MkDec(s, t.coef, t.exp)

\* the quotient qr.q at the exponent e, rounded
DivRounded(s, qr, e, ideal) ==
    Fix(IF ~IsZeroNat(qr.r) THEN MkDec(s, Sticky(qr.q), e)
        ELSE Trimmed(s, DropTrailingZeros(qr.q, e, ideal)))

\* the division of the coefficients, the dividend scaled by 10^shift
DivShifted(a, b, shift) ==
    DivRounded(Xor(a.sign, b.sign),
               NatDivMod(ShiftLeft(a.coef, Max(shift, 0)), ShiftLeft(b.coef, Max(-shift, 0))),
               a.exp - b.exp - shift,
               a.exp - b.exp)

\* Decimal.__truediv__, for a nonzero divisor b
DecDiv(a, b) ==
    IF IsZeroDec(a) THEN MkDec(Xor(a.sign, b.sign), NatZero, a.exp - b.exp)
    ELSE DivShifted(a, b, Len(b.coef) - Len(a.coef) + Prec + 1)

\* the comparison of the magnitudes
CmpMagnitude(a, b) ==
    NatCmp(ShiftLeft(a.coef, a.exp - Min(a.exp, b.exp)),
           ShiftLeft(b.coef, b.exp - Min(a.exp, b.exp)))

\* compare by value: -1, 0, 1
DecCmp(a, b) ==
    IF IsZeroDec(a) /\ IsZeroDec(b) THEN 0
    ELSE IF IsZeroDec(a) THEN (IF b.sign = 1 THEN 1 ELSE -1)
    ELSE IF IsZeroDec(b) THEN (IF a.sign = 1 THEN -1 ELSE 1)
    ELSE IF a.sign # b.sign THEN (IF a.sign = 1 THEN -1 ELSE 1)
    ELSE (IF a.sign = 1 THEN -1 ELSE 1) * CmpMagnitude(a, b)

DecEq(a, b) == DecCmp(a, b) = 0

\* the value in hundredths, rounded half-even as Decimal._rescale(-2) does;
\* Len(a.coef) + a.exp + 2 digits of the coefficient are kept
Hundredths(a) ==
    IF IsZeroDec(a) THEN NatZero
    ELSE IF a.exp >= -2 THEN ShiftLeft(a.coef, a.exp + 2)
    ELSE IF Len(a.coef) + a.exp + 2 < 0 THEN NatZero
    ELSE RoundedTo(a.coef, Len(a.coef) + a.exp + 2)

Money(s, n) == [sign |-> s, units |-> n \div 100, cents |-> n % 100]

\* format(d, ".2f"): the value rounded half-even to two places; the text is
\* the sign, the units, a point and the two digits of cents
Format2f(a) == Money(a.sign, NatToInt(Hundredths(a)))

----------------------------------------------------------------------------
(* logic.calculate_split_bill                                              *)

\* bounds of the inputs explored
MaxPeople == 3
MaxAmount == 2
MaxOther == 2

Names == {"Alice", "Bob"}

\* per-person subtotals and other charges: small integers of either sign
Amounts == {DecFromInt(n) : n \in -1..MaxAmount}
Charges == {DecFromInt(n) : n \in -1..MaxOther}

PersonAmount == [name : Names, amount : Amounts]

PeopleLists == UNION {[1..n -> PersonAmount] : n \in 0..MaxPeople}

\* the worked example of the specification
ExamplePeople ==
    << [name |-> "Alice", amount |-> DecFromInt(10)],
       [name |-> "Bob", amount |-> DecFromInt(30)] >>
ExampleCharges == DecFromInt(8)

RECURSIVE SumFrom(_, _)
\* sum(amounts): Python's sum starts from the int 0 and adds from the left
SumFrom(amounts, n) ==
    IF n = 0 THEN DecZero ELSE DecAdd(SumFrom(amounts, n - 1), amounts[n])

AmountsOf(person_amounts) ==
    [i \in 1..Len(person_amounts) |-> person_amounts[i].amount]

Total(person_amounts) == SumFrom(AmountsOf(person_amounts), Len(person_amounts))

\* the empty dictionary
Empty == <<>>

IsEmpty(r) == DOMAIN r = {}

Raised(r) == "raised" \in DOMAIN r

\* the dictionary of the equal split, every person at split_other_charges
EqualShares(person_amounts, other_charges, split_other_charges) ==
    [subtotal |-> DecZero,
     grand_total |-> other_charges,
     final_amounts |->
         [i \in 1..Len(person_amounts) |->
             [name |-> person_amounts[i].name, amount |-> split_other_charges]],
     is_equal_split |-> TRUE]

\* variant of EqualSplit that hands every person the whole of the charges
EqualSplitUndivided(person_amounts, other_charges) ==
    [subtotal |-> DecZero,
     grand_total |-> other_charges,
     final_amounts |->
         [i \in 1..Len(person_amounts) |->
             [name |-> person_amounts[i].name, amount |-> other_charges]],
     is_equal_split |-> TRUE]

\* the branch taken when total == 0 and there is something to split
EqualSplit(person_amounts, other_charges) ==
    IF DivRaises(other_charges, DecFromInt(Len(person_amounts))) # "none"
    THEN [raised |-> DivRaises(other_charges, DecFromInt(Len(person_amounts)))]
    ELSE EqualShares(person_amounts, other_charges,
                     DecDiv(other_charges, DecFromInt(Len(person_amounts))))

\* variant of Weights that uses the first person's share for everyone
WeightsOfFirst(amounts, total) == [i \in 1..Len(amounts) |-> DecDiv(amounts[1], total)]

\* weights = [x / total for x in amounts]
Weights(amounts, total) == [i \in 1..Len(amounts) |-> DecDiv(amounts[i], total)]

\* the dictionary of the proportional split: amount + other_charges * weight
ProportionalShares(person_amounts, other_charges, total, weights) ==
    [subtotal |-> total,
     grand_total |-> DecAdd(total, other_charges),
     final_amounts |->
         [i \in 1..Len(person_amounts) |->
             [name |-> person_amounts[i].name,
              amount |-> DecAdd(person_amounts[i].amount,
                                DecMul(other_charges, weights[i]))]],
     is_equal_split |-> FALSE]

\* variant of Proportional that keys the result by name, as a dictionary
\* would: a repeated name keeps its first position and its last amount
ProportionalByName(person_amounts, other_charges, total) ==
    LET amounts == AmountsOf(person_amounts)
        n == Len(person_amounts)
        final(i) == DecAdd(amounts[i], DecMul(other_charges, DecDiv(amounts[i], total)))
        firsts == {i \in 1..n : \A j \in 1..(i - 1) : person_amounts[j].name # person_amounts[i].name}
        last(i) == MaxOf({j \in 1..n : person_amounts[j].name = person_amounts[i].name})
        pos(k) == CHOOSE i \in firsts : Cardinality({j \in firsts : j <= i}) = k
    IN  [subtotal |-> total,
         grand_total |-> DecAdd(total, other_charges),
         final_amounts |->
             [k \in 1..Cardinality(firsts) |->
                 [name |-> person_amounts[pos(k)].name, amount |-> final(last(pos(k)))]],
         is_equal_split |-> FALSE]

\* the proportional branch
Proportional(person_amounts, other_charges, total) ==
    LET bad == {i \in 1..Len(person_amounts) :
                   DivRaises(person_amounts[i].amount, total) # "none"}
    IN  IF bad # {}
        THEN [raised |-> DivRaises(person_amounts[MinOf(bad)].amount, total)]
        ELSE ProportionalShares(person_amounts, other_charges, total,
                                Weights(AmountsOf(person_amounts), total))

\* variant of calculate_split_bill that looks at the individual amounts: the
\* equal split is for people who all entered zero
calculate_split_bill_all_zero(person_amounts, other_charges) ==
    IF \A i \in 1..Len(person_amounts) : IsZeroDec(person_amounts[i].amount)
    THEN IF DecCmp(other_charges, DecZero) > 0 /\ Len(person_amounts) > 0
         THEN EqualSplit(person_amounts, other_charges)
         ELSE Empty
    ELSE Proportional(person_amounts, other_charges, Total(person_amounts))

\* variant of calculate_split_bill that also splits charges of zero
calculate_split_bill_ge(person_amounts, other_charges) ==
    LET total == Total(person_amounts)
    IN  IF DecEq(total, DecZero)
        THEN IF DecCmp(other_charges, DecZero) >= 0 /\ Len(person_amounts) > 0
             THEN EqualSplit(person_amounts, other_charges)
             ELSE Empty
        ELSE Proportional(person_amounts, other_charges, total)

\* variant of calculate_split_bill without the total == 0 branch
calculate_split_bill_unguarded(person_amounts, other_charges) ==
    IF Len(person_amounts) = 0 THEN Empty
    ELSE Proportional(person_amounts, other_charges, Total(person_amounts))

calculate_split_bill(person_amounts, other_charges) ==
    LET total == Total(person_amounts)
    IN  IF DecEq(total, DecZero)
        THEN IF DecCmp(other_charges, DecZero) > 0 /\ Len(person_amounts) > 0
             THEN EqualSplit(person_amounts, other_charges)
             ELSE Empty
        ELSE Proportional(person_amounts, other_charges, total)

----------------------------------------------------------------------------
(* logic.safe_decimal_eval: eval() of the expression with no builtins, then *)
(* Decimal() of the value.                                                  *)
(*                                                                          *)
(* An expression is a sequence of lexemes; the string handed to the         *)
(* evaluator is the lexemes joined by single spaces ("1 / 2").  The         *)
(* lexemes are numerals, the four operators, parentheses, the boolean       *)
(* literal True, the keyword import and the name os.                        *)

Numerals == {"0", "1", "2", "15"}

NumeralValue(t) ==
    CASE t = "0" -> 0 [] t = "1" -> 1 [] t = "2" -> 2 [] t = "15" -> 15

\* the lexemes expressions are enumerated over
Lexemes == {"0", "1", "2", "+", "-", "*", "/", "(", ")", "True", "import", "os"}

\* the lexemes of arithmetic on numeric literals
ArithmeticLexemes == Numerals \cup {"+", "-", "*", "/", "(", ")"}

\* A Python number: an int (f = FALSE, k = 0) or a float (f = TRUE) of value
\* (-1)^s * m / 2^k, in lowest terms; a float zero keeps its sign.  Every
\* float an expression of the lengths explored can produce is such a dyadic
\* rational, held exactly by a double.
RECURSIVE Lowest(_, _)
Lowest(m, k) ==
    IF k > 0 /\ m % 2 = 0 THEN Lowest(m \div 2, k - 1) ELSE [m |-> m, k |-> k]

PyInt(n) == [f |-> FALSE, s |-> IF n < 0 THEN 1 ELSE 0, m |-> IF n < 0 THEN -n ELSE n, k |-> 0]

PyFloat(s, m, k) == [f |-> TRUE, s |-> s, m |-> Lowest(m, k).m, k |-> Lowest(m, k).k]

\* the numerator of x over the denominator 2^k
Scaled(x, k) == (IF x.s = 1 THEN -1 ELSE 1) * x.m * 2^(k - x.k)

Abs(n) == IF n < 0 THEN -n ELSE n

PyNeg(x) == IF x.f THEN [x EXCEPT !.s = 1 - x.s] ELSE PyInt(-Scaled(x, 0))

PyAdd(x, y) ==
    LET k == Max(x.k, y.k)
        n == Scaled(x, k) + Scaled(y, k)
    IN  IF ~x.f /\ ~y.f THEN PyInt(n)
        ELSE IF n = 0
        THEN PyFloat(IF x.m = 0 /\ y.m = 0 /\ x.s = 1 /\ y.s = 1 THEN 1 ELSE 0, 0, 0)
        ELSE PyFloat(IF n < 0 THEN 1 ELSE 0, Abs(n), k)

PySub(x, y) ==
    IF ~x.f /\ ~y.f THEN PyInt(Scaled(x, 0) - Scaled(y, 0))
    ELSE PyAdd([x EXCEPT !.f = TRUE], PyNeg([y EXCEPT !.f = TRUE]))

PyMul(x, y) ==
    IF ~x.f /\ ~y.f THEN PyInt(Scaled(x, 0) * Scaled(y, 0))
    ELSE PyFloat(Xor(x.s, y.s), x.m * y.m, x.k + y.k)

\* x / y for y # 0: always a float.  Defined where the quotient is a dyadic
\* rational, that is where the divisor's numerator is a power of two: a
\* divisor such as 3 needs at least "1 / ( 1 + 2 )", seven lexemes, which is
\* beyond the expressions explored.
PyTrueDiv(x, y) ==
    LET j == CHOOSE i \in 0..30 : y.m = 2^i
        down == x.k + j      \* divide by 2^down, multiply by 2^y.k
    IN  IF down >= y.k THEN PyFloat(Xor(x.s, y.s), x.m, down - y.k)
        ELSE PyFloat(Xor(x.s, y.s), x.m * 2^(y.k - down), 0)

\* Decimal(v) of an int, a bool or a float: exact
DecFromNumber(v) == MkDec(v.s, NatFromInt(v.m * 5^v.k), -v.k)

\* the outcome of a parse: failed, or the value and the position after it
Fail == [ok |-> FALSE]
Parsed(v, i) == [ok |-> TRUE, v |-> v, i |-> i]

RECURSIVE ParseSum(_, _), ParseSumRest(_, _, _), ParseTerm(_, _),
          ParseTermRest(_, _, _), ParseFactor(_, _), ParseAtom(_, _)

\* a "(" right after an atom makes it a call; nothing an expression over
\* these lexemes can build is callable, so eval() raises whatever follows
NoCall(toks, v, i) ==
    IF i <= Len(toks) /\ toks[i] = "(" THEN Fail ELSE Parsed(v, i)

\* what follows "(" and a sum: the closing parenthesis
Closing(toks, r) ==
    IF r.ok /\ r.i <= Len(toks) /\ toks[r.i] = ")"
    THEN NoCall(toks, r.v, r.i + 1)
    ELSE Fail

\* atom: a numeral, True, os (unbound: eval() raises), a parenthesised
\* expression; "( )" is the empty tuple, which no operator turns into a
\* number and Decimal() rejects
ParseAtom(toks, i) ==
    IF i > Len(toks) THEN Fail
    ELSE IF toks[i] \in Numerals THEN NoCall(toks, PyInt(NumeralValue(toks[i])), i + 1)
    ELSE IF toks[i] = "True" THEN NoCall(toks, PyInt(1), i + 1)
    ELSE IF toks[i] = "(" THEN Closing(toks, ParseSum(toks, i + 1))
    ELSE Fail

\* the unary operator op applied to the factor parsed as r
Signed(op, r) ==
    IF ~r.ok THEN Fail
    ELSE Parsed(IF op = "-" THEN PyNeg(r.v) ELSE r.v, r.i)

\* factor: ('+' | '-') factor | atom
ParseFactor(toks, i) ==
    IF i > Len(toks) THEN Fail
    ELSE IF toks[i] \in {"+", "-"} THEN Signed(toks[i], ParseFactor(toks, i + 1))
    ELSE ParseAtom(toks, i)

\* acc op (the factor parsed as r), then the rest of the term; x / 0 raises
TermStep(toks, acc, op, r) ==
    IF ~r.ok THEN Fail
    ELSE IF op = "*" THEN ParseTermRest(toks, PyMul(acc, r.v), r.i)
    ELSE IF r.v.m = 0 THEN Fail
    ELSE ParseTermRest(toks, PyTrueDiv(acc, r.v), r.i)

\* term: factor (('*' | '/') factor)*, from the left
ParseTermRest(toks, acc, i) ==
    IF i <= Len(toks) /\ toks[i] \in {"*", "/"}
    THEN TermStep(toks, acc, toks[i], ParseFactor(toks, i + 1))
    ELSE Parsed(acc, i)

StartTerm(toks, r) == IF r.ok THEN ParseTermRest(toks, r.v, r.i) ELSE Fail

ParseTerm(toks, i) == StartTerm(toks, ParseFactor(toks, i))

\* acc op (the term parsed as r), then the rest of the sum
SumStep(toks, acc, op, r) ==
    IF ~r.ok THEN Fail
    ELSE ParseSumRest(toks, IF op = "+" THEN PyAdd(acc, r.v) ELSE PySub(acc, r.v), r.i)

\* sum: term (('+' | '-') term)*, from the left
ParseSumRest(toks, acc, i) ==
    IF i <= Len(toks) /\ toks[i] \in {"+", "-"}
    THEN SumStep(toks, acc, toks[i], ParseTerm(toks, i + 1))
    ELSE Parsed(acc, i)

StartSum(toks, r) == IF r.ok THEN ParseSumRest(toks, r.v, r.i) ELSE Fail

ParseSum(toks, i) == StartSum(toks, ParseTerm(toks, i))

\* the whole text must have been consumed
Complete(toks, r) == IF r.ok /\ r.i = Len(toks) + 1 THEN r ELSE Fail

\* eval(expression, {"__builtins__": None}, {}): the value, or not ok when
\* eval() raises (a syntax error, an unbound name, a call, a division by
\* zero)
PyEval(toks) == Complete(toks, ParseSum(toks, 1))

Value(d) == [value |-> d]

CalculationError(expression) ==
    [error |-> "CalculationError",
     message |-> [text |-> "Invalid expression: ", input |-> expression]]

IsError(o) == "error" \in DOMAIN o

\* Decimal(...) of what eval() returned, or the error for what it raised
Decimalised(expression, r) ==
    IF r.ok THEN Value(DecFromNumber(r.v)) ELSE CalculationError(expression)

\* the evaluation of the standalone app (bill_splitter._safe_eval): zero
\* instead of an error
safe_eval_zero(expression) ==
    IF expression = <<>> \/ ~PyEval(expression).ok THEN Value(DecFromInt(0))
    ELSE Value(DecFromNumber(PyEval(expression).v))

safe_decimal_eval(expression) ==
    IF expression = <<>> THEN Value(DecFromInt(0))
    ELSE Decimalised(expression, PyEval(expression))

----------------------------------------------------------------------------
(* ui.BillSplitterApp.calculate_split                                      *)

\* the names of people.json, in file order
Roster == <<"Alice", "Bob", "Carol">>

\* Widget.border_title before PersonInput.on_mount has set it
NoneTitle == "None"

\* what the user may have typed into an amount field or into other charges
FieldTexts ==
    { <<>>, <<"2">>, <<"1", "/", "2">>, <<"-", "1">>,
      <<"1", "/", "0">>, <<"import", "os">>, <<"True">> }

MaxWidgets == 2

\* the message of self.notify, without the warning sign that opens it
Notification == [text |-> "Invalid expression, using 0 instead.", severity |-> "error"]

\* the except clause of _safe_eval_with_notify: notify and use zero
NotifyOnError(o) ==
    IF IsError(o) THEN [value |-> DecFromInt(0), notified |-> <<Notification>>]
    ELSE [value |-> o.value, notified |-> <<>>]

\* variant of safe_eval_with_notify that substitutes zero without a word
safe_eval_silent(expression) ==
    [value |-> IF IsError(safe_decimal_eval(expression)) THEN DecFromInt(0)
               ELSE safe_decimal_eval(expression).value,
     notified |-> <<>>]

\* BillSplitterApp._safe_eval_with_notify: the value used, and what it notified
safe_eval_with_notify(expression) == NotifyOnError(safe_decimal_eval(expression))

RECURSIVE NotifiedUpTo(_, _)
\* the notifications of the first n evaluations, in order
NotifiedUpTo(evals, n) ==
    IF n = 0 THEN <<>> ELSE NotifiedUpTo(evals, n - 1) \o evals[n].notified

Lines(final_amounts) ==
    [i \in 1..Len(final_amounts) |->
        [name |-> final_amounts[i].name, amount |-> Format2f(final_amounts[i].amount)]]

\* step 3 of calculate_split: the text put into the results widget
Render(r) ==
    IF Raised(r)
    THEN IF r.raised = "InvalidOperation"
         THEN [text |-> "Error: Invalid number or expression."]
         ELSE [uncaught |-> r.raised]
    ELSE IF IsEmpty(r) THEN [text |-> "Nothing to calculate."]
    ELSE IF r.is_equal_split
    THEN [total |-> Format2f(r.grand_total),
          caption |-> "Final amounts (charges split equally):",
          lines |-> Lines(r.final_amounts)]
    ELSE [subtotal |-> Format2f(r.subtotal),
          grand_total |-> Format2f(r.grand_total),
          caption |-> "Final amounts per person:",
          lines |-> Lines(r.final_amounts)]

\* steps 2 and 3 of calculate_split on the evaluated fields: the allocator
\* is called on (border_title, value) pairs and its result is displayed
SplitAndDisplay(ws, evals, other) ==
    [results |->
         Render(calculate_split_bill(
                    [i \in 1..Len(ws) |->
                        [name |-> ws[i].border_title, amount |-> evals[i].value]],
                    other.value)),
     notified |-> NotifiedUpTo(evals, Len(ws)) \o other.notified]

\* the widgets whose compose has not run: they have no Input, and
\* PersonInput.value (query_one(Input)) raises NoMatches
Uncomposed(ws) == {i \in 1..Len(ws) : ~ws[i].composed}

\* step 1 of calculate_split stopped by NoMatches at widget i: the fields
\* before it have been evaluated, nothing is displayed
GatherRaised(evals, i) ==
    [results |-> [uncaught |-> "NoMatches"], notified |-> NotifiedUpTo(evals, i - 1)]

\* steps 1 and 2 of calculate_split: the fields are evaluated in widget
\* order, other charges last, and the allocator is called
calculate_split(ws, other_text) ==
    IF Uncomposed(ws) # {}
    THEN GatherRaised([i \in 1..Len(ws) |-> safe_eval_with_notify(ws[i].value)],
                      MinOf(Uncomposed(ws)))
    ELSE SplitAndDisplay(ws, [i \in 1..Len(ws) |-> safe_eval_with_notify(ws[i].value)],
                         safe_eval_with_notify(other_text))

----------------------------------------------------------------------------
(* bill_splitter.BillSplitterApp.calculate_split: the standalone app, which *)
(* evaluates the fields and splits the bill inline.                         *)

\* the except clause of _safe_eval: zero, silently
ZeroOnError(r) == IF r.ok THEN DecFromNumber(r.v) ELSE DecFromInt(0)

\* bill_splitter.BillSplitterApp._safe_eval
safe_eval(expression) ==
    IF expression = <<>> THEN DecFromInt(0) ELSE ZeroOnError(PyEval(expression))

\* what the except InvalidOperation clause makes of a signal of decimal
InlineRaised(signal) ==
    IF signal = "InvalidOperation"
    THEN [text |-> "Error: Invalid number or expression."]
    ELSE [uncaught |-> signal]

\* the output of the equal split: the total and one line per widget
InlineEqual(ws, other_charges, split_other_charges) ==
    [total |-> Format2f(other_charges),
     caption |-> "Final amounts (charges split equally):",
     lines |-> [i \in 1..Len(ws) |->
                   [name |-> ws[i].border_title, amount |-> Format2f(split_other_charges)]]]

\* variant of InlineProportional that adds the whole of the other charges to
\* every person
InlineProportionalUnweighted(ws, L, other_charges, total, weights) ==
    [subtotal |-> Format2f(total),
     grand_total |-> Format2f(DecAdd(total, other_charges)),
     caption |-> "Final amounts per person:",
     lines |-> [i \in 1..Len(ws) |->
                   [name |-> ws[i].border_title,
                    amount |-> Format2f(DecAdd(L[i], other_charges))]]]

\* the output of the proportional split: final_amount = l + other_charges * w
InlineProportional(ws, L, other_charges, total, weights) ==
    [subtotal |-> Format2f(total),
     grand_total |-> Format2f(DecAdd(total, other_charges)),
     caption |-> "Final amounts per person:",
     lines |-> [i \in 1..Len(ws) |->
                   [name |-> ws[i].border_title,
                    amount |-> Format2f(DecAdd(L[i], DecMul(other_charges, weights[i])))]]]

\* the branches on total == 0
InlineBranch(ws, L, other_charges, total) ==
    IF DecEq(total, DecZero)
    THEN IF DecCmp(other_charges, DecZero) > 0 /\ Len(ws) > 0
         THEN IF DivRaises(other_charges, DecFromInt(Len(ws))) # "none"
              THEN InlineRaised(DivRaises(other_charges, DecFromInt(Len(ws))))
              ELSE InlineEqual(ws, other_charges,
                               DecDiv(other_charges, DecFromInt(Len(ws))))
         ELSE [text |-> "Nothing to calculate."]
    ELSE IF \E i \in 1..Len(L) : DivRaises(L[i], total) # "none"
    THEN InlineRaised(DivRaises(L[MinOf({i \in 1..Len(L) : DivRaises(L[i], total) # "none"})],
                                total))
    ELSE InlineProportional(ws, L, other_charges, total,
                            [i \in 1..Len(L) |-> DecDiv(L[i], total)])

\* the standalone calculate_split: L and other_charges by _safe_eval, then
\* total = sum(L)
inline_calculate_split(ws, other_text) ==
    IF Uncomposed(ws) # {} THEN [uncaught |-> "NoMatches"]
    ELSE InlineBranch(ws, [i \in 1..Len(ws) |-> safe_eval(ws[i].value)],
                      safe_eval(other_text),
                      SumFrom([i \in 1..Len(ws) |-> safe_eval(ws[i].value)], Len(ws)))

----------------------------------------------------------------------------
(* State.  The specifications share it: Spec calls the allocator on inputs *)
(* drawn at the start, SpecEval does the same for the evaluator, SpecUI    *)
(* presses Calculate on a window drawn at the start, SpecApps presses it   *)
(* in the refactored and in the standalone app on the same window, and     *)
(* SpecPeople adds people to the window and removes them.                  *)

VARIABLES
    pc,                  \* "ready" before the call, "done" after it
    person_amounts,      \* allocator: the (name, amount) pairs
    other_charges,       \* allocator: the other charges
    result,              \* allocator: the dictionary returned
    expression,          \* evaluator: the expression, as lexemes
    outcome,             \* evaluator: the value returned or the error raised
    all_people,          \* UI: the roster on_mount loaded
    widgets,             \* UI: the PersonInput widgets of #people_list, in order
    other_charges_input, \* UI: the text of the #other_charges input
    results_widget,      \* UI: the content of #results
    notifications,       \* UI: the notifications raised so far
    uncaught,            \* UI: the last exception that left a handler
    modal,               \* UI: the SelectPersonScreen on top, if any
    callbacks,           \* UI: the selections dismissed, add_people_callback pending
    removes,             \* UI: the Remove messages posted and not yet handled
    standalone_results,  \* standalone app: the content of its #results
    standalone_uncaught  \* standalone app: the last exception that left a handler

vars == <<pc, person_amounts, other_charges, result, expression, outcome,
          all_people, widgets, other_charges_input, results_widget, notifications,
          uncaught, modal, callbacks, removes, standalone_results,
          standalone_uncaught>>

allocVars == <<person_amounts, other_charges, result>>
evalVars == <<expression, outcome>>
uiVars == <<all_people, widgets, other_charges_input, results_widget, notifications,
            uncaught, modal, callbacks, removes, standalone_results,
            standalone_uncaught>>

\* no modal screen is on top
NoModal == [open |-> FALSE]

NoResult == [pending |-> TRUE]

AllocIdle == person_amounts = <<>> /\ other_charges = DecZero /\ result = NoResult
EvalIdle == expression = <<>> /\ outcome = NoResult

\* the app as __init__ and compose leave it, on_mount not yet run
UIIdle ==
    /\ all_people = <<>>
    /\ widgets = <<>>
    /\ other_charges_input = <<>>
    /\ results_widget = [text |-> ""]
    /\ notifications = <<>>
    /\ uncaught = "none"
    /\ modal = NoModal
    /\ callbacks = <<>>
    /\ removes = <<>>
    /\ standalone_results = [text |-> ""]
    /\ standalone_uncaught = "none"

Init ==
    /\ pc = "ready"
    /\ \/ /\ person_amounts \in PeopleLists
          /\ other_charges \in Charges
       \/ /\ person_amounts = ExamplePeople
          /\ other_charges = ExampleCharges
    /\ result = NoResult
    /\ EvalIdle
    /\ UIIdle

Allocate ==
    /\ pc = "ready"
    /\ result' = calculate_split_bill(person_amounts, other_charges)
    /\ pc' = "done"
    /\ UNCHANGED <<person_amounts, other_charges, evalVars, uiVars>>

Next == Allocate

Spec == Init /\ [][Next]_vars

\* bound of the expressions enumerated
MaxTokens == 4

Expressions == UNION {[1..n -> Lexemes] : n \in 0..MaxTokens}

\* the examples of the specification: "15 / 2" and "2 + 2 * 2"
ExampleExpressions == { <<"15", "/", "2">>, <<"2", "+", "2", "*", "2">> }

EvalInit ==
    /\ pc = "ready"
    /\ expression \in Expressions \cup ExampleExpressions
    /\ outcome = NoResult
    /\ AllocIdle
    /\ UIIdle

Evaluate ==
    /\ pc = "ready"
    /\ outcome' = safe_decimal_eval(expression)
    /\ pc' = "done"
    /\ UNCHANGED <<expression, allocVars, uiVars>>

EvalNext == Evaluate

SpecEval == EvalInit /\ [][EvalNext]_vars

----------------------------------------------------------------------------
(* The window: on_mount, the buttons of the main screen, the selection     *)
(* modal and the people list.                                              *)

\* the three ways on_mount ends: the roster loaded, people.json missing,
\* people.json not JSON; the text is what it writes into #results. The
\* texts of #results are kept without their console markup ([bold red],
\* [bold yellow], [bold]), which changes the style and not the words
RosterLoads ==
    { [all_people |-> Roster, text |-> ""],
      [all_people |-> <<>>, text |-> "Error: people.json not found."],
      [all_people |-> <<>>, text |-> "Error: Could not decode people.json."] }

\* on_mount, of the refactored and of the standalone app alike
OnMount(load) ==
    /\ all_people = load.all_people
    /\ results_widget = [text |-> load.text]
    /\ standalone_results = [text |-> load.text]

\* a PersonInput of the roster's person `name`: mounted, with its title and
\* whatever was typed; composed but on_mount still pending, with no title and
\* an empty input; or not yet composed, with no title and no input at all
PersonInputs(name) ==
    {[person_name |-> name, border_title |-> name, composed |-> TRUE, value |-> t] :
        t \in FieldTexts}
    \cup {[person_name |-> name, border_title |-> NoneTitle, composed |-> c, value |-> <<>>] :
             c \in BOOLEAN}

\* windows with up to MaxWidgets people of the roster, each at most once
Windows ==
    UNION { {ws \in [1..n -> UNION {PersonInputs(Roster[k]) : k \in 1..Len(Roster)}] :
                \A i, j \in 1..n : i # j => ws[i].person_name # ws[j].person_name}
            : n \in 0..MaxWidgets }

\* the window before a button of the main screen is pressed: people of the
\* roster added and texts typed, or nobody added
UIInit ==
    /\ pc = "ready"
    /\ \E load \in RosterLoads :
          /\ OnMount(load)
          /\ widgets \in IF load.all_people = <<>> THEN {<<>>} ELSE Windows
    /\ other_charges_input \in FieldTexts
    /\ notifications = <<>>
    /\ uncaught = "none"
    /\ modal = NoModal
    /\ callbacks = <<>>
    /\ removes = <<>>
    /\ standalone_uncaught = "none"
    /\ AllocIdle
    /\ EvalIdle

\* bound of the runs explored: the user presses the buttons of the main
\* screen while fewer than MaxNotified notifications have been raised
MaxNotified == 1

\* #results after the handler: untouched when an exception left it, which
\* is what a display marked uncaught stands for
Displayed(shown, before) == IF "uncaught" \in DOMAIN shown THEN before ELSE shown

\* the exception that left the handler, if one did
Escaped(shown, before) ==
    IF "uncaught" \in DOMAIN shown THEN shown.uncaught ELSE before

\* the effect of calculate_split on the window
Calculated(c) ==
    /\ results_widget' = Displayed(c.results, results_widget)
    /\ notifications' = notifications \o c.notified
    /\ uncaught' = Escaped(c.results, uncaught)

\* the Calculate button
CalculateSplit ==
    /\ ~modal.open
    /\ Len(notifications) < MaxNotified
    /\ Calculated(calculate_split(widgets, other_charges_input))
    /\ pc' = "done"
    /\ UNCHANGED <<all_people, widgets, other_charges_input, modal, callbacks,
                   standalone_results, standalone_uncaught, allocVars, evalVars, removes>>

\* self.notify(message, severity=...); the default severity is information
Notify(text, severity) == [text |-> text, severity |-> severity]

\* a notification that ends with the text of the exception caught
NotifyError(text, e) == [text |-> text, severity |-> "error", error |-> e]

\* how subprocess.run of termux-share may end
ShareOutcomes == {"shared", "FileNotFoundError", "CalledProcessError", "Exception"}

\* the notification of each branch of the try statement of action_share_results
ShareNotification(o) ==
    CASE o = "shared" -> Notify("Results shared successfully!", "information")
      [] o = "FileNotFoundError" ->
             Notify("Error: 'termux-share' command not found. Are you in Termux?", "error")
      [] o = "CalledProcessError" -> NotifyError("Error sharing: ", o)
      [] OTHER -> NotifyError("An unexpected error occurred: ", o)

\* the Share button: action_share_results
ShareResults ==
    /\ ~modal.open
    /\ Len(notifications) < MaxNotified
    /\ IF results_widget = [text |-> ""]
       THEN notifications' =
                Append(notifications,
                       Notify("Nothing to share yet. Calculate the bill first!", "warning"))
       ELSE \E o \in ShareOutcomes :
                notifications' = Append(notifications, ShareNotification(o))
    /\ UNCHANGED <<pc, all_people, widgets, other_charges_input, results_widget, uncaught,
                   modal, callbacks, standalone_results, standalone_uncaught, allocVars, evalVars, removes>>

\* how the file dialog and the OCR may end
UploadOutcomes == {"no file", "completed", "Exception"}

\* the notification of each path of action_upload_image
UploadNotification(o) ==
    CASE o = "no file" -> Notify("No file selected.", "warning")
      [] o = "completed" ->
             Notify("Image uploaded and OCR completed successfully!", "success")
      [] OTHER -> NotifyError("Error uploading or processing image: ", o)

\* the Upload Bill Image button: action_upload_image
UploadImage ==
    /\ ~modal.open
    /\ Len(notifications) < MaxNotified
    /\ \E o \in UploadOutcomes :
          notifications' = Append(notifications, UploadNotification(o))
    /\ UNCHANGED <<pc, all_people, widgets, other_charges_input, results_widget, uncaught,
                   modal, callbacks, standalone_results, standalone_uncaught, allocVars, evalVars, removes>>

\* current_people = {inp.border_title for inp in self.query(PersonInput)}
CurrentPeople(ws) == {ws[i].border_title : i \in 1..Len(ws)}

\* available_people = [p for p in self.all_people if p not in current_people]
AvailablePeople ==
    SelectSeq(all_people, LAMBDA p : p \notin CurrentPeople(widgets))

\* the Add Person button: action_add_person
AddPerson ==
    /\ ~modal.open
    /\ IF AvailablePeople = <<>>
       THEN /\ results_widget' = [text |-> "All people from people.json have been added."]
            /\ modal' = modal
       ELSE /\ modal' = [open |-> TRUE, people |-> AvailablePeople]
            /\ results_widget' = results_widget
    /\ UNCHANGED <<pc, all_people, widgets, other_charges_input, notifications, uncaught,
                   callbacks, standalone_results, standalone_uncaught, allocVars, evalVars, removes>>

\* on_button_pressed of the main screen
UINext == CalculateSplit \/ AddPerson \/ ShareResults \/ UploadImage

SpecUI == UIInit /\ [][UINext]_vars

\* the effect of the standalone calculate_split on its window
InlineCalculated(shown) ==
    /\ standalone_results' = Displayed(shown, standalone_results)
    /\ standalone_uncaught' = Escaped(shown, standalone_uncaught)

\* the Calculate button of the standalone app, on the same fields
InlineCalculateSplit ==
    /\ ~modal.open
    /\ InlineCalculated(inline_calculate_split(widgets, other_charges_input))
    /\ UNCHANGED <<pc, all_people, widgets, other_charges_input, results_widget,
                   notifications, uncaught, modal, callbacks, allocVars, evalVars, removes>>

AppsNext == CalculateSplit \/ InlineCalculateSplit

\* both apps with the same texts in their fields, each pressing Calculate
SpecApps == UIInit /\ [][AppsNext]_vars

----------------------------------------------------------------------------
(* The people list: action_add_person, the selection modal, the mounting   *)
(* of the PersonInput widgets and on_person_input_remove.                  *)

\* bound of the people list explored: the user ticks people while the list,
\* with those still to be mounted, holds at most MaxEntries
MaxEntries == 3

\* bound of the selections dismissed whose callback has not yet been called
MaxPending == 2

\* bound of the Remove messages posted and not yet handled
MaxRemoves == 2

\* PersonInput(name=name) as mount() leaves it: in the list, compose and
\* on_mount not yet run
NewPersonInput(name) ==
    [person_name |-> name, border_title |-> NoneTitle, composed |-> FALSE, value |-> <<>>]

\* SelectionList.selected: some of the people offered, each once, in the
\* order they were ticked
Selections(people) ==
    {s \in UNION {[1..n -> {people[k] : k \in 1..Len(people)}] : n \in 0..Len(people)} :
        \A i, j \in 1..Len(s) : i # j => s[i] # s[j]}

RECURSIVE Ticked(_, _)
\* the number of names in the first n selections
Ticked(selections, n) ==
    IF n = 0 THEN 0 ELSE Ticked(selections, n - 1) + Len(selections[n])

\* the window as on_mount of the app leaves it: nobody added, nothing typed
PeopleInit ==
    /\ pc = "ready"
    /\ \E load \in RosterLoads : OnMount(load)
    /\ widgets = <<>>
    /\ other_charges_input = <<>>
    /\ notifications = <<>>
    /\ uncaught = "none"
    /\ modal = NoModal
    /\ callbacks = <<>>
    /\ removes = <<>>
    /\ standalone_uncaught = "none"
    /\ AllocIdle
    /\ EvalIdle

\* the Add Selected button of the modal: dismiss(selected) pops the screen
\* and leaves add_people_callback to be called with the selection
AddSelected ==
    /\ modal.open
    /\ Len(callbacks) < MaxPending
    /\ \E people_names \in Selections(modal.people) :
          /\ Len(widgets) + Ticked(callbacks, Len(callbacks)) + Len(people_names)
                <= MaxEntries
          /\ callbacks' = Append(callbacks, people_names)
    /\ modal' = NoModal
    /\ UNCHANGED <<pc, all_people, widgets, other_charges_input, results_widget,
                   notifications, uncaught, standalone_results, standalone_uncaught, allocVars, evalVars, removes>>

\* add_people_callback: one PersonInput per name is put into #people_list,
\* nothing for an empty selection; with a modal on top the query for
\* #people_list either finds it or raises NoMatches, and then the selection
\* is lost
AddPeopleCallback ==
    /\ callbacks # <<>>
    /\ callbacks' = Tail(callbacks)
    /\ \/ /\ widgets' = widgets \o [i \in 1..Len(Head(callbacks)) |->
                                      NewPersonInput(Head(callbacks)[i])]
          /\ uncaught' = uncaught
       \/ /\ Head(callbacks) # <<>>
          /\ modal.open
          /\ widgets' = widgets
          /\ uncaught' = "NoMatches"
    /\ UNCHANGED <<pc, all_people, other_charges_input, results_widget, notifications,
                   modal, standalone_results, standalone_uncaught, allocVars, evalVars,
                   removes>>

\* add_people_callback of the standalone app
InlineAddPeopleCallback ==
    /\ callbacks # <<>>
    /\ callbacks' = Tail(callbacks)
    /\ \/ /\ widgets' = widgets \o [i \in 1..Len(Head(callbacks)) |->
                                      NewPersonInput(Head(callbacks)[i])]
          /\ standalone_uncaught' = standalone_uncaught
       \/ /\ Head(callbacks) # <<>>
          /\ modal.open
          /\ widgets' = widgets
          /\ standalone_uncaught' = "NoMatches"
    /\ UNCHANGED <<pc, all_people, other_charges_input, results_widget, notifications,
                   uncaught, modal, standalone_results, allocVars, evalVars, removes>>

\* escape: action_dismiss_modal pops the screen, the callback is not called
DismissModal ==
    /\ modal.open
    /\ modal' = NoModal
    /\ UNCHANGED <<pc, all_people, widgets, other_charges_input, results_widget,
                   notifications, uncaught, callbacks, standalone_results, standalone_uncaught, allocVars, evalVars, removes>>

\* PersonInput.compose of a widget put into the list: its Input and its
\* remove button come to be
Compose ==
    /\ \E i \in 1..Len(widgets) :
          /\ ~widgets[i].composed
          /\ widgets' = [widgets EXCEPT ![i].composed = TRUE]
    /\ UNCHANGED <<pc, all_people, other_charges_input, results_widget, notifications,
                   uncaught, modal, callbacks, standalone_results, standalone_uncaught, allocVars, evalVars, removes>>

\* PersonInput.on_mount of a composed widget whose Mount event is pending
Mount ==
    /\ \E i \in 1..Len(widgets) :
          /\ widgets[i].composed
          /\ widgets[i].border_title = NoneTitle
          /\ widgets' = [widgets EXCEPT ![i].border_title = widgets[i].person_name]
    /\ UNCHANGED <<pc, all_people, other_charges_input, results_widget, notifications,
                   uncaught, modal, callbacks, standalone_results, standalone_uncaught, allocVars, evalVars, removes>>

\* the remove button of a PersonInput, which exists once the widget is
\* composed: PersonInput.on_button_pressed posts Remove(self), each time
\* the button is pressed
PressRemove ==
    /\ ~modal.open
    /\ Len(removes) < MaxRemoves
    /\ \E i \in 1..Len(widgets) :
          /\ widgets[i].composed
          /\ removes' = Append(removes, i)
    /\ UNCHANGED <<pc, all_people, widgets, other_charges_input, results_widget,
                   notifications, uncaught, modal, callbacks, standalone_results, standalone_uncaught,
                   allocVars, evalVars>>

\* message.to_remove.remove() of the Remove message handled next; the
\* widgets behind the one removed move up by one, and a later message for
\* the same widget, kept as 0, finds it gone and leaves the list as it is
ToRemoveRemoved ==
    /\ removes # <<>>
    /\ IF Head(removes) = 0
       THEN /\ widgets' = widgets
            /\ removes' = Tail(removes)
       ELSE /\ widgets' = SubSeq(widgets, 1, Head(removes) - 1)
                             \o SubSeq(widgets, Head(removes) + 1, Len(widgets))
            /\ removes' = [k \in 1..Len(removes) - 1 |->
                               IF removes[k + 1] = Head(removes) THEN 0
                               ELSE IF removes[k + 1] > Head(removes)
                                    THEN removes[k + 1] - 1
                                    ELSE removes[k + 1]]

\* on_person_input_remove, run when the Remove message reaches the app: the
\* widget is removed and #results updated; with a modal on top the query
\* for #results either finds it or raises NoMatches
OnPersonInputRemove ==
    /\ ToRemoveRemoved
    /\ \/ /\ results_widget' = [text |-> "Person removed."]
          /\ uncaught' = uncaught
       \/ /\ modal.open
          /\ results_widget' = results_widget
          /\ uncaught' = "NoMatches"
    /\ UNCHANGED <<pc, all_people, other_charges_input, notifications, modal, callbacks,
                   standalone_results, standalone_uncaught, allocVars, evalVars>>

\* on_person_input_remove of the standalone app
InlineOnPersonInputRemove ==
    /\ ToRemoveRemoved
    /\ \/ /\ standalone_results' = [text |-> "Person removed."]
          /\ standalone_uncaught' = standalone_uncaught
       \/ /\ modal.open
          /\ standalone_results' = standalone_results
          /\ standalone_uncaught' = "NoMatches"
    /\ UNCHANGED <<pc, all_people, other_charges_input, results_widget, notifications,
                   uncaught, modal, callbacks, allocVars, evalVars>>

\* the Add Person button of the standalone app: its action_add_person
InlineAddPerson ==
    /\ ~modal.open
    /\ IF AvailablePeople = <<>>
       THEN /\ standalone_results'
                 = [text |-> "All people from people.json have been added."]
            /\ modal' = modal
       ELSE /\ modal' = [open |-> TRUE, people |-> AvailablePeople]
            /\ standalone_results' = standalone_results
    /\ UNCHANGED <<pc, all_people, widgets, other_charges_input, results_widget,
                   notifications, uncaught, callbacks, removes, standalone_uncaught,
                   allocVars, evalVars>>

\* the handlers of the window of the refactored app, the fields left empty
PeopleNext ==
    \/ AddPerson
    \/ AddSelected
    \/ AddPeopleCallback
    \/ DismissModal
    \/ Compose
    \/ Mount
    \/ PressRemove
    \/ OnPersonInputRemove
    \/ CalculateSplit

\* the app's message pump and each widget's own run concurrently: a callback,
\* a Compose or Mount event or a Remove message may still be pending when the
\* app handles the next button
SpecPeople == PeopleInit /\ [][PeopleNext]_vars

\* the handlers of the window of the standalone app, the fields left empty
StandaloneNext ==
    \/ InlineAddPerson
    \/ AddSelected
    \/ InlineAddPeopleCallback
    \/ DismissModal
    \/ Compose
    \/ Mount
    \/ PressRemove
    \/ InlineOnPersonInputRemove
    \/ InlineCalculateSplit

SpecStandalone == PeopleInit /\ [][StandaloneNext]_vars

----------------------------------------------------------------------------
(* Properties of the allocator.                                            *)

RECURSIVE ExactSumFrom(_, _)
\* the sum of the first n amounts with no rounding at all
ExactSumFrom(amounts, n) ==
    IF n = 0 THEN DecZero ELSE ExactAdd(ExactSumFrom(amounts, n - 1), amounts[n])

ExactSum(amounts) == ExactSumFrom(amounts, Len(amounts))

InputTotal == ExactSum(AmountsOf(person_amounts))

IsSplitResult(r) ==
    DOMAIN r = {"subtotal", "grand_total", "final_amounts", "is_equal_split"}

FinalAmounts == AmountsOf(result.final_amounts)

Done == pc = "done"

\* C1: for non-empty people with a positive subtotal sum and other charges
\* >= 0, the final amounts add up, exactly, to subtotal + other charges.
C1_FinalAmountsSumToGrandTotal ==
    (/\ Done
     /\ Len(person_amounts) > 0
     /\ DecCmp(InputTotal, DecZero) > 0
     /\ DecCmp(other_charges, DecZero) >= 0)
    => /\ IsSplitResult(result)
       /\ DecEq(ExactSum(FinalAmounts), ExactAdd(InputTotal, other_charges))

\* C2: for non-empty people whose subtotals sum to exactly 0 and other
\* charges > 0, the result is an equal split: is_equal_split, subtotal 0,
\* grand_total = other charges, one final amount per person, each equal to
\* other charges / count.
C2_EqualSplit ==
    (/\ Done
     /\ Len(person_amounts) > 0
     /\ DecEq(InputTotal, DecZero)
     /\ DecCmp(other_charges, DecZero) > 0)
    => /\ IsSplitResult(result)
       /\ result.is_equal_split = TRUE
       /\ DecEq(result.subtotal, DecZero)
       /\ DecEq(result.grand_total, other_charges)
       /\ Len(result.final_amounts) = Len(person_amounts)
       /\ \A i \in 1..Len(result.final_amounts) :
            /\ result.final_amounts[i].amount
                 = DecDiv(other_charges, DecFromInt(Len(person_amounts)))
            /\ DecEq(result.final_amounts[i].amount, result.final_amounts[1].amount)

C2_Witness ==
    /\ Done
    /\ Len(person_amounts) = 3
    /\ \E i \in 1..3 : ~IsZeroDec(person_amounts[i].amount)
    /\ DecEq(InputTotal, DecZero)
    /\ DecEq(other_charges, DecFromInt(2))
    /\ IsSplitResult(result)
    /\ result.is_equal_split

\* C3: the result is Empty exactly when the people sequence is empty, or it
\* is non-empty with subtotal sum 0 and other charges not greater than 0;
\* in every other case it is a SplitResult.
C3_EmptyResult ==
    Done =>
        /\ IsEmpty(result) <=>
             \/ Len(person_amounts) = 0
             \/ /\ DecEq(InputTotal, DecZero)
                /\ DecCmp(other_charges, DecZero) <= 0
        /\ ~IsEmpty(result) => IsSplitResult(result)

C3_Witness ==
    /\ Done
    /\ Len(person_amounts) = 2
    /\ ~IsZeroDec(person_amounts[1].amount)
    /\ DecEq(other_charges, DecZero)
    /\ IsEmpty(result)

\* C4: when the subtotals sum to a nonzero value the result has
\* is_equal_split = false, subtotal = the sum, grand_total = subtotal + other
\* charges and finalAmount[i] = subtotal[i] + other * (subtotal[i] / subtotal),
\* computed in the decimal arithmetic of the program; Alice 10, Bob 30 and
\* other charges 8 give subtotal 40, grand total 48, Alice 12 and Bob 36.
C4_Proportional ==
    (Done /\ ~DecEq(InputTotal, DecZero)) =>
        /\ IsSplitResult(result)
        /\ result.is_equal_split = FALSE
        /\ DecEq(result.subtotal, InputTotal)
        /\ DecEq(result.grand_total, ExactAdd(InputTotal, other_charges))
        /\ Len(result.final_amounts) = Len(person_amounts)
        /\ \A i \in 1..Len(person_amounts) :
             result.final_amounts[i].amount
               = DecAdd(person_amounts[i].amount,
                        DecMul(other_charges,
                               DecDiv(person_amounts[i].amount, InputTotal)))
        /\ (person_amounts = ExamplePeople /\ other_charges = ExampleCharges) =>
             /\ DecEq(result.subtotal, DecFromInt(40))
             /\ DecEq(result.grand_total, DecFromInt(48))
             /\ DecEq(result.final_amounts[1].amount, DecFromInt(12))
             /\ DecEq(result.final_amounts[2].amount, DecFromInt(36))

C4_Witness ==
    /\ Done
    /\ person_amounts = ExamplePeople
    /\ other_charges = ExampleCharges
    /\ IsSplitResult(result)
    /\ result.final_amounts[1].name = "Alice"
    /\ DecEq(result.final_amounts[1].amount, DecFromInt(12))

\* C5: a non-Empty result has one final amount per input entry, the i-th
\* carrying the name of the i-th input person, also with repeated names.
C5_OrderPreserved ==
    (Done /\ ~IsEmpty(result)) =>
        /\ IsSplitResult(result)
        /\ Len(result.final_amounts) = Len(person_amounts)
        /\ \A i \in 1..Len(person_amounts) :
             result.final_amounts[i].name = person_amounts[i].name

C5_Witness ==
    /\ Done
    /\ Len(person_amounts) = 3
    /\ person_amounts[1].name = person_amounts[3].name
    /\ person_amounts[1].name # person_amounts[2].name
    /\ IsSplitResult(result)
    /\ ~result.is_equal_split
    /\ Len(result.final_amounts) = 3

\* C7: the allocator raises nothing: whatever the people and the other
\* charges, the call ends in a SplitResult or Empty, never in the signal of
\* a division by zero.
C7_NeverRaises ==
    Done => /\ ~Raised(result)
            /\ IsEmpty(result) \/ IsSplitResult(result)

C7_Witness ==
    /\ Done
    /\ Len(person_amounts) = 2
    /\ DecCmp(InputTotal, DecZero) < 0
    /\ DecCmp(other_charges, DecZero) < 0
    /\ IsSplitResult(result)

\* the same people, each with a subtotal of zero
AllZero(people) ==
    [i \in 1..Len(people) |-> [name |-> people[i].name, amount |-> DecZero]]

Cancels ==
    /\ DecEq(InputTotal, DecZero)
    /\ \E i \in 1..Len(person_amounts) : ~IsZeroDec(person_amounts[i].amount)

\* C11: the branch depends only on whether the subtotals sum to zero.
\* Subtotals that cancel to zero give what the same people with all-zero
\* subtotals give: the equal split of the other charges when these are > 0,
\* the individual amounts discarded, and Empty otherwise.  A nonzero sum,
\* negative included, gives the proportional result, is_equal_split = false.
C11_BranchBySumOnly ==
    Done =>
        /\ Cancels =>
              /\ result = calculate_split_bill(AllZero(person_amounts), other_charges)
              /\ IF DecCmp(other_charges, DecZero) > 0
                 THEN /\ IsSplitResult(result)
                      /\ result.is_equal_split = TRUE
                      /\ \A i \in 1..Len(person_amounts) :
                            result.final_amounts[i].amount
                              = DecDiv(other_charges, DecFromInt(Len(person_amounts)))
                 ELSE IsEmpty(result)
        /\ ~DecEq(InputTotal, DecZero) =>
              /\ IsSplitResult(result)
              /\ result.is_equal_split = FALSE
              /\ DecEq(result.subtotal, InputTotal)
              /\ \A i \in 1..Len(person_amounts) :
                    result.final_amounts[i].amount
                      = DecAdd(person_amounts[i].amount,
                               DecMul(other_charges,
                                      DecDiv(person_amounts[i].amount, result.subtotal)))

C11_Witness ==
    /\ Done
    /\ Len(person_amounts) = 3
    /\ DecEq(person_amounts[1].amount, DecFromInt(2))
    /\ DecEq(person_amounts[2].amount, DecFromInt(-1))
    /\ DecEq(person_amounts[3].amount, DecFromInt(-1))
    /\ DecEq(other_charges, DecFromInt(1))
    /\ IsSplitResult(result)
    /\ result.is_equal_split
    /\ DecEq(result.final_amounts[1].amount, result.final_amounts[3].amount)

----------------------------------------------------------------------------
(* Properties of the evaluator.                                            *)

\* C8: an empty expression evaluates to decimal zero; a non-empty one to
\* the value of the expression, or to a CalculationError carrying the
\* expression; whatever eval() raises, "1 / 0" and "import os" included,
\* ends in that error and never in a substituted value.
C8_ValueOrError ==
    Done =>
        /\ expression = <<>> => outcome = Value(DecFromInt(0))
        /\ (expression # <<>> /\ PyEval(expression).ok) =>
             /\ ~IsError(outcome)
             /\ outcome.value = DecFromNumber(PyEval(expression).v)
        /\ (expression # <<>> /\ ~PyEval(expression).ok) =>
             /\ IsError(outcome)
             /\ outcome.error = "CalculationError"
             /\ outcome.message.input = expression
        /\ expression \in {<<"1", "/", "0">>, <<"import", "os">>} => IsError(outcome)
        /\ expression = <<"15", "/", "2">> =>
             outcome = Value(MkDec(0, <<7, 5>>, -1))
        /\ expression = <<"2", "+", "2", "*", "2">> =>
             outcome = Value(DecFromInt(6))

C8_Witness ==
    /\ Done
    /\ expression = <<"1", "/", "0">>
    /\ IsError(outcome)
    /\ outcome.message.input = <<"1", "/", "0">>

\* C9: only arithmetic on numeric literals is evaluated; an expression with
\* anything else, such as a boolean literal, is rejected.
C9_OnlyArithmeticAccepted ==
    (Done /\ ~IsError(outcome)) =>
        \A i \in 1..Len(expression) : expression[i] \in ArithmeticLexemes

----------------------------------------------------------------------------
(* Properties of the calculate handler.                                    *)

Invalid(text) == text # <<>> /\ ~PyEval(text).ok

ValueOrZero(text) ==
    IF text = <<>> \/ ~PyEval(text).ok THEN DecFromInt(0)
    ELSE DecFromNumber(PyEval(text).v)

InvalidFields ==
    {i \in 1..Len(widgets) : Invalid(widgets[i].value)}

SubstitutedAmounts ==
    [i \in 1..Len(widgets) |->
        [name |-> widgets[i].border_title, amount |-> ValueOrZero(widgets[i].value)]]

\* the number of fields of the window that hold an invalid expression
InvalidCount ==
    Cardinality(InvalidFields) + (IF Invalid(other_charges_input) THEN 1 ELSE 0)

\* C10: when Calculate is pressed on a window whose person widgets all have
\* their input, an invalid expression in a person field or in other charges
\* raises a notification and counts as zero for that field only; the
\* calculation goes on, and what is displayed is the allocation of the
\* fields, in widget order, with exactly the invalid ones at zero.
C10_InvalidFieldsCountAsZero ==
    [][(CalculateSplit /\ Uncomposed(widgets) = {}) =>
          /\ notifications' = notifications \o [i \in 1..InvalidCount |-> Notification]
          /\ results_widget'
                = Render(calculate_split_bill(SubstitutedAmounts,
                                              ValueOrZero(other_charges_input)))
          /\ uncaught' = uncaught
          /\ "uncaught" \notin DOMAIN results_widget'
          /\ results_widget' # [text |-> "Error: Invalid number or expression."]]_vars

C10_Witness ==
    /\ Done
    /\ Len(widgets) = 2
    /\ Invalid(widgets[1].value)
    /\ widgets[2].value = <<"1", "/", "2">>
    /\ Invalid(other_charges_input)
    /\ notifications = <<Notification, Notification>>
    /\ uncaught = "none"
    /\ "lines" \in DOMAIN results_widget
    /\ results_widget.lines[1].amount = [sign |-> 0, units |-> 0, cents |-> 0]
    /\ results_widget.lines[2].amount = [sign |-> 0, units |-> 0, cents |-> 50]

----------------------------------------------------------------------------
(* The standalone app against the refactored one.                          *)

\* C12: with the same texts in the person fields and in other charges, the
\* standalone app and the refactored one display the same outcome (nothing
\* to calculate, equal split or proportional split), the same names in the
\* same order with the same amounts, and the same totals: when the
\* standalone app calculates on a window the refactored app has calculated
\* on, it displays what the refactored app displays, and an exception leaves
\* its handler exactly when one left the other's.
C12_AppsAgree ==
    [][(pc = "done" /\ InlineCalculateSplit) =>
          /\ standalone_results' = results_widget
          /\ standalone_uncaught' = uncaught]_vars

C12_Witness ==
    /\ pc = "done"
    /\ standalone_results = results_widget
    /\ uncaught = "none"
    /\ standalone_uncaught = "none"
    /\ Len(widgets) = 2
    /\ widgets[1].value = <<"1", "/", "2">>
    /\ widgets[2].value = <<"import", "os">>
    /\ other_charges_input = <<"2">>
    /\ "subtotal" \in DOMAIN standalone_results
    /\ standalone_results.lines[1].amount = [sign |-> 0, units |-> 2, cents |-> 50]
    /\ standalone_results.lines[2].name = widgets[2].border_title

----------------------------------------------------------------------------
(* Properties of the people list.                                          *)

RosterNames == {all_people[k] : k \in 1..Len(all_people)}

EntryNames == {widgets[i].person_name : i \in 1..Len(widgets)}

\* C13: with a roster of distinct names, whatever the sequence of add-person
\* (modal opened, selection confirmed or dismissed) and remove-person, also
\* when an add-person starts before the widgets of the previous one are
\* mounted: no two entries of the people list carry the same name, every
\* entry's name is a roster name, and add-person offers every roster person
\* who is not in the list, a removed one included.
C13_NoDuplicateEntries ==
    [][/\ \A i, j \in 1..Len(widgets') :
             i # j => widgets'[i].person_name # widgets'[j].person_name
       /\ EntryNames' \subseteq RosterNames'
       /\ AddPerson =>
             \A p \in RosterNames \ EntryNames :
                 /\ modal'.open
                 /\ \E k \in 1..Len(modal'.people) : modal'.people[k] = p]_vars

====
